---- MODULE Spec2Model ----
(***************************************************************************)
(* Model of tools/fixedgraph.py: the Graph aggregate (nodes, edges and the *)
(* forward / reverse adjacency indices) and the fixed-leaf pruning pass    *)
(* remove_fixed_leaves, driven as main() drives it.                        *)
(*                                                                         *)
(* A Node is modelled by the two fields the pruning reads, id and fixed.   *)
(* Ids are 1..n in the order main() inserted them into the nodes dict, so  *)
(* the sequence `nodes` is the dict in its iteration order.  Edge names    *)
(* are "env" and "ref"; "ref" stands for every name the code compares      *)
(* unequal to "env" (None included).                                       *)
(***************************************************************************)
EXTENDS Integers, Sequences, FiniteSets, TLC

\* the documents main() reads hold at most MaxSize ids: one for each node
\* record and two, src and dst, for each edge record
MaxSize == 7

\* the pass counter stops counting here; a call on n nodes makes at most n + 1 passes
PassCap == MaxSize + 2

Names == {"env", "ref"}

VARIABLES
    nodes,          \* self.nodes: the Node values in dict iteration order
    edges,          \* self.edges: list of Edge, repetitions kept
    forward_edges,  \* self._forward_edges: defaultdict(set), Node -> set of Edge
    reverse_edges,  \* self._reverse_edges: defaultdict(set), Node -> set of Edge
    removed_any,    \* local of remove_fixed_leaves
    todo,           \* what is left of list(self.nodes.values()) in the for loop
    pc,             \* position of the program
    err,            \* exception that ended the run, "none" while there is none
    calls,          \* number of remove_fixed_leaves calls entered
    passes,         \* iterations of the while loop begun in the current call
    input,          \* the nodes and edges main() handed to Graph()
    removed,        \* the nodes on which lines 108-109 have been executed
    entry,          \* the graph as it was when the current call was entered
    pass_nodes,     \* len(self.nodes) when the current pass began
    target,         \* the node a caller of the Graph class last asked to remove
    name,           \* generate_graphviz: node.name, then the local `name`
    label           \* generate_graphviz: the name as it appears in the label

\* what main()'s construction and pruning of a graph leave untouched
beside == <<target, name, label>>

vars == <<nodes, edges, forward_edges, reverse_edges, removed_any, todo, pc,
          err, calls, passes, input, removed, entry, pass_nodes,
          target, name, label>>

----------------------------------------------------------------------------
(* Data *)

Node(i, f) == [id |-> i, fixed |-> f]

Edge(s, d, n) == [src |-> s, dst |-> d, name |-> n]

Range(s) == {s[i] : i \in 1..Len(s)}

EmptyDict == [k \in {} |-> {}]

\* no node: the value of `target` while nothing has been asked
NoNode == [id |-> 0, fixed |-> FALSE]

\* the element of a one-element set; The({F(x) : x \in {v}}) is F(v) with v
\* evaluated once, the way Python evaluates an argument
The(S) == CHOOSE r \in S : TRUE


\* collections.defaultdict(set): reading d[k] yields the empty set for a new key
Get(d, k) == IF k \in DOMAIN d THEN d[k] ELSE {}

\* ... and inserts the key
Touch(d, k) == [x \in DOMAIN d \cup {k} |-> Get(d, x)]

\* d[k].add(e)
Add(d, k, e) == [x \in DOMAIN d \cup {k} |-> IF x = k THEN Get(d, k) \cup {e} ELSE d[x]]

\* list.remove(x): drops the first occurrence only
ListRemove(s, x) ==
    LET i == CHOOSE j \in 1..Len(s) : s[j] = x /\ \A k \in 1..(j - 1) : s[k] # x
    IN  SubSeq(s, 1, i - 1) \o SubSeq(s, i + 1, Len(s))

\* del self.nodes[key]
DictDel(ns, id) ==
    LET i == CHOOSE j \in 1..Len(ns) : ns[j].id = id
    IN  SubSeq(ns, 1, i - 1) \o SubSeq(ns, i + 1, Len(ns))

----------------------------------------------------------------------------
(* Graph.__init__ *)

RECURSIVE BuildIndex(_, _, _, _)
BuildIndex(es, i, fw, rv) ==
    IF i > Len(es) THEN [fwd |-> fw, rev |-> rv]
    ELSE BuildIndex(es, i + 1, Add(fw, es[i].src, es[i]), Add(rv, es[i].dst, es[i]))

----------------------------------------------------------------------------
(* Graph._remove_node_edges, on g = [edges, fwd, rev, err] *)

\* the first loop without line 117: the src's forward bucket keeps the edge
ReverseStepKeepsForward(g, node, edge) ==
    IF edge \notin g.rev[node]
    THEN [g EXCEPT !.err = "KeyError"]
    ELSE LET r2 == [g.rev EXCEPT ![node] = @ \ {edge}] IN
         IF edge \notin Range(g.edges)
         THEN [g EXCEPT !.rev = r2, !.err = "ValueError"]
         ELSE [g EXCEPT !.rev = r2, !.edges = ListRemove(g.edges, edge)]

\* body of the first loop, lines 117-121
ReverseStep(g, node, edge) ==
    LET f1 == Touch(g.fwd, edge.src) IN
    IF edge \notin f1[edge.src]
    THEN [g EXCEPT !.fwd = f1, !.err = "KeyError"]
    ELSE LET f2 == [f1 EXCEPT ![edge.src] = @ \ {edge}] IN
         IF edge \notin g.rev[node]
         THEN [g EXCEPT !.fwd = f2, !.err = "KeyError"]
         ELSE LET r2 == [g.rev EXCEPT ![node] = @ \ {edge}] IN
              IF edge \notin Range(g.edges)
              THEN [g EXCEPT !.fwd = f2, !.rev = r2, !.err = "ValueError"]
              ELSE [g EXCEPT !.fwd = f2, !.rev = r2,
                             !.edges = ListRemove(g.edges, edge)]

\* the second loop without line 129: the node's forward bucket keeps the edge
ForwardStepKeepsBucket(g, node, edge) ==
    LET r1 == Touch(g.rev, edge.dst) IN
    IF edge \notin r1[edge.dst]
    THEN [g EXCEPT !.rev = r1, !.err = "KeyError"]
    ELSE LET r2 == [r1 EXCEPT ![edge.dst] = @ \ {edge}] IN
         IF edge \notin Range(g.edges)
         THEN [g EXCEPT !.rev = r2, !.err = "ValueError"]
         ELSE [g EXCEPT !.rev = r2, !.edges = ListRemove(g.edges, edge)]

\* the second loop without line 132: `edges` keeps the edge
ForwardStepKeepsEdge(g, node, edge) ==
    IF edge \notin g.fwd[node]
    THEN [g EXCEPT !.err = "KeyError"]
    ELSE LET f2 == [g.fwd EXCEPT ![node] = @ \ {edge}]
             r1 == Touch(g.rev, edge.dst) IN
         IF edge \notin r1[edge.dst]
         THEN [g EXCEPT !.fwd = f2, !.rev = r1, !.err = "KeyError"]
         ELSE [g EXCEPT !.fwd = f2, !.rev = [r1 EXCEPT ![edge.dst] = @ \ {edge}]]

\* body of the second loop, lines 128-132
ForwardStep(g, node, edge) ==
    IF edge \notin g.fwd[node]
    THEN [g EXCEPT !.err = "KeyError"]
    ELSE LET f2 == [g.fwd EXCEPT ![node] = @ \ {edge}]
             r1 == Touch(g.rev, edge.dst) IN
         IF edge \notin r1[edge.dst]
         THEN [g EXCEPT !.fwd = f2, !.rev = r1, !.err = "KeyError"]
         ELSE LET r2 == [r1 EXCEPT ![edge.dst] = @ \ {edge}] IN
              IF edge \notin Range(g.edges)
              THEN [g EXCEPT !.fwd = f2, !.rev = r2, !.err = "ValueError"]
              ELSE [g EXCEPT !.fwd = f2, !.rev = r2,
                             !.edges = ListRemove(g.edges, edge)]

\* for edge in list(node_reverse): the copy `rest` is walked, an exception ends it
RECURSIVE ReverseLoop(_, _, _)
ReverseLoop(g, node, rest) ==
    IF rest = {} \/ g.err # "none" THEN g
    ELSE LET edge == CHOOSE e \in rest : TRUE
         IN  The({ReverseLoop(h, node, rest \ {edge}) : h \in {ReverseStep(g, node, edge)}})

\* for edge in list(node_forward)
RECURSIVE ForwardLoop(_, _, _)
ForwardLoop(g, node, rest) ==
    IF rest = {} \/ g.err # "none" THEN g
    ELSE LET edge == CHOOSE e \in rest : TRUE
         IN  The({ForwardLoop(h, node, rest \ {edge}) : h \in {ForwardStep(g, node, edge)}})

\* assert not node_reverse, assert not node_forward: lines 123 and 134
AssertEmpty(g, bucket) ==
    IF g.err = "none" /\ bucket # {} THEN [g EXCEPT !.err = "AssertionError"] ELSE g

\* lines 126-134, entered with the graph g2 the first loop and its assert left
ForwardPart(g2, node) ==
    The({AssertEmpty(g3, g3.fwd[node]) : g3 \in {ForwardLoop(g2, node, g2.fwd[node])}})

\* lines 115-123, entered with both buckets of node looked up
ReversePart(g0, node) ==
    The({AssertEmpty(g1, g1.rev[node]) : g1 \in {ReverseLoop(g0, node, g0.rev[node])}})

remove_node_edges(g, node) ==
    The({ForwardPart(g2, node) : g2 \in
        {The({ReversePart(g0, node) : g0 \in
            {[g EXCEPT !.rev = Touch(g.rev, node), !.fwd = Touch(g.fwd, node)]}})}})

----------------------------------------------------------------------------
(* Graph.remove_fixed_leaves: the two tests of the for loop *)

\* line 100 dropped: non-fixed nodes are pruned like fixed ones
NotInterestingNever(node) == FALSE

\* line 100: if not node.fixed: continue
NotInteresting(node) == ~node.fixed

\* line 103 with the comparison inverted
HasEnvReference(fw, node) == \E e \in Get(fw, node) : e.name = "env"

\* line 103 without the "env" exemption
HasAnyReference(fw, node) == Get(fw, node) # {}

\* line 103 counting only references to non-fixed nodes
HasNonEnvReferenceToNonFixed(fw, node) ==
    \E e \in Get(fw, node) : e.name # "env" /\ ~e.dst.fixed

\* line 103 not counting a node's references to itself
HasNonEnvReferenceToOther(fw, node) ==
    \E e \in Get(fw, node) : e.name # "env" /\ e.dst # node

\* line 103: any(e.name != "env" for e in self._forward_edges[node])
HasNonEnvReference(fw, node) == \E e \in Get(fw, node) : e.name # "env"

\* line 97 as `while True`
LoopConditionAlways(ra) == TRUE

\* line 97: while removed_any
LoopCondition(ra) == ra

\* line 98 dropped
ResetRemovedAnyOmitted == TRUE

\* line 98: removed_any = False
ResetRemovedAny == FALSE

\* line 110 dropped
RemovedAnyForgotten == FALSE

\* line 110: removed_any = True
RemovedAnyAfterRemoval == TRUE

----------------------------------------------------------------------------
(* Inputs: what main() builds from the document before calling Graph() *)

NodeLists ==
    {[i \in 1..n |-> Node(i, fx[i])] : <<n, fx>> \in
        UNION {{<<m, f>> : f \in [1..m -> BOOLEAN]} : m \in 0..MaxSize}}

EdgeLists(ns) ==
    LET E == {Edge(s, d, n) : s \in Range(ns), d \in Range(ns), n \in Names}
    IN  UNION {[1..k -> E] : k \in 0..((MaxSize - Len(ns)) \div 2)}

\* main() has not read its document yet
Init ==
    /\ nodes = <<>>
    /\ edges = <<>>
    /\ forward_edges = EmptyDict
    /\ reverse_edges = EmptyDict
    /\ removed_any = FALSE
    /\ todo = <<>>
    /\ pc = "start"
    /\ err = "none"
    /\ calls = 0
    /\ passes = 0
    /\ input = [nodes |-> <<>>, edges |-> <<>>]
    /\ removed = {}
    /\ entry = [nodes |-> <<>>, edges |-> <<>>, fwd |-> EmptyDict, rev |-> EmptyDict]
    /\ pass_nodes = 0
    /\ target = NoNode
    /\ name = <<>>
    /\ label = <<>>

----------------------------------------------------------------------------
(* Actions *)

\* main() reads the document and builds the nodes dict and the edges list,
\* lines 138-151; each edge's src and dst are looked up in the dict
Load ==
    /\ pc = "start"
    /\ nodes' \in NodeLists
    /\ edges' \in EdgeLists(nodes')
    /\ input' = [nodes |-> nodes', edges |-> edges']
    /\ pc' = "main"
    /\ UNCHANGED <<forward_edges, reverse_edges, removed_any, todo, err, calls,
                   passes, removed, entry, pass_nodes>>
    /\ UNCHANGED beside

\* graph = Graph(nodes, edges), lines 35-43 and 153
Construct ==
    /\ pc = "main"
    /\ LET ix == BuildIndex(edges, 1, EmptyDict, EmptyDict) IN
        /\ forward_edges' = ix.fwd
        /\ reverse_edges' = ix.rev
    /\ pc' = "built"
    /\ UNCHANGED <<nodes, edges, removed_any, todo, err, calls, passes, input, removed, entry, pass_nodes>>
    /\ UNCHANGED beside

\* graph.remove_fixed_leaves() is entered, line 96: by main() on the graph it
\* built, line 154, and once more directly after that call returned
Call ==
    /\ pc = "built" \/ (pc = "done" /\ calls = 1)
    /\ calls' = calls + 1
    /\ removed_any' = TRUE
    /\ passes' = 0
    /\ entry' = [nodes |-> nodes, edges |-> edges,
                 fwd |-> forward_edges, rev |-> reverse_edges]
    /\ pc' = "while"
    /\ UNCHANGED <<nodes, edges, forward_edges, reverse_edges, todo, err, input,
                   removed, pass_nodes>>
    /\ UNCHANGED beside

\* the while test of line 97 is reached on entry and when the for loop is exhausted
AtWhile == pc = "while" \/ (pc = "for" /\ todo = <<>>)

\* while removed_any: a pass begins, lines 97-99
PassStart ==
    /\ AtWhile
    /\ LoopCondition(removed_any)
    /\ removed_any' = ResetRemovedAny
    /\ todo' = nodes
    /\ passes' = IF passes < PassCap THEN passes + 1 ELSE passes
    /\ pc' = "for"
    /\ pass_nodes' = Len(nodes)
    /\ UNCHANGED <<nodes, edges, forward_edges, reverse_edges, err, calls, input, removed, entry>>
    /\ UNCHANGED beside

\* lines 100-102
SkipNonFixed ==
    /\ pc = "for"
    /\ todo # <<>>
    /\ NotInteresting(Head(todo))
    /\ todo' = Tail(todo)
    /\ UNCHANGED <<nodes, edges, forward_edges, reverse_edges, removed_any, pc,
                   err, calls, passes, input, removed, entry, pass_nodes>>
    /\ UNCHANGED beside

\* lines 103-107
SkipReferencing ==
    /\ pc = "for"
    /\ todo # <<>>
    /\ ~NotInteresting(Head(todo))
    /\ HasNonEnvReference(forward_edges, Head(todo))
    /\ forward_edges' = Touch(forward_edges, Head(todo))
    /\ todo' = Tail(todo)
    /\ UNCHANGED <<nodes, edges, reverse_edges, removed_any, pc,
                   err, calls, passes, input, removed, entry, pass_nodes>>
    /\ UNCHANGED beside

\* lines 108-110
RemoveLeaf ==
    /\ pc = "for"
    /\ todo # <<>>
    /\ ~NotInteresting(Head(todo))
    /\ ~HasNonEnvReference(forward_edges, Head(todo))
    /\ \E node \in {Head(todo)} :
       \E g \in {remove_node_edges([edges |-> edges,
                                   fwd |-> Touch(forward_edges, node),
                                   rev |-> reverse_edges, err |-> "none"], node)} :
       LET found == \E i \in 1..Len(nodes) : nodes[i].id = node.id
       IN  /\ edges' = g.edges
           /\ forward_edges' = g.fwd
           /\ reverse_edges' = g.rev
           /\ IF g.err # "none"
              THEN /\ err' = g.err
                   /\ pc' = "raised"
                   /\ UNCHANGED <<nodes, removed_any, todo>>
              ELSE IF ~found
              THEN /\ err' = "KeyError"
                   /\ pc' = "raised"
                   /\ UNCHANGED <<nodes, removed_any, todo>>
              ELSE /\ nodes' = DictDel(nodes, node.id)
                   /\ removed_any' = RemovedAnyAfterRemoval
                   /\ todo' = Tail(todo)
                   /\ UNCHANGED <<pc, err>>
    /\ removed' = IF pc' = "raised" THEN removed ELSE removed \cup {Head(todo)}
    /\ UNCHANGED <<calls, passes, input, entry, pass_nodes>>
    /\ UNCHANGED beside

\* while removed_any is false: remove_fixed_leaves returns
Return ==
    /\ AtWhile
    /\ ~LoopCondition(removed_any)
    /\ pc' = "done"
    /\ UNCHANGED <<nodes, edges, forward_edges, reverse_edges, removed_any, todo,
                   err, calls, passes, input, removed, entry, pass_nodes>>
    /\ UNCHANGED beside

Next ==
    \/ Load
    \/ Construct
    \/ Call
    \/ PassStart
    \/ SkipNonFixed
    \/ SkipReferencing
    \/ RemoveLeaf
    \/ Return

Spec == Init /\ [][Next]_vars

----------------------------------------------------------------------------
(* The Graph class under callers other than a well-formed run of main(): a  *)
(* document, or a direct caller, whose edges name a node that is not in the *)
(* node map, and a caller that removes nodes of its own choice.             *)

\* a Node value, or the id of one, that the node map ns does not hold
Stranger(ns) == Node(Len(ns) + 1, TRUE)

\* edge lists whose src and dst are nodes of ns or the stranger
AnyEdgeLists(ns) ==
    LET E == {Edge(x, d, n) : x \in Range(ns) \cup {Stranger(ns)},
                              d \in Range(ns) \cup {Stranger(ns)}, n \in Names}
    IN  UNION {[1..k -> E] : k \in 0..((MaxSize - Len(ns)) \div 2)}

Malformed(ns, es) ==
    \E i \in 1..Len(es) : es[i].src \notin Range(ns) \/ es[i].dst \notin Range(ns)

\* main() on a document with an edge record whose src or dst id is not a key
\* of the nodes dict: the lookup of line 149 or 150 raises KeyError, the edges
\* list holds the records before that one, Graph() is never reached
LoadUnknownId ==
    /\ pc = "start"
    /\ \E ns \in NodeLists : \E es \in AnyEdgeLists(ns) :
          /\ Malformed(ns, es)
          /\ LET i == CHOOSE j \in 1..Len(es) :
                          /\ Malformed(ns, <<es[j]>>)
                          /\ \A k \in 1..(j - 1) : ~Malformed(ns, <<es[k]>>)
             IN  edges' = SubSeq(es, 1, i - 1)
          /\ nodes' = ns
          /\ input' = [nodes |-> ns, edges |-> es]
    /\ pc' = "raised"
    /\ err' = "KeyError"
    /\ UNCHANGED <<forward_edges, reverse_edges, removed_any, todo, calls,
                   passes, removed, entry, pass_nodes>>
    /\ UNCHANGED beside

\* a caller other than main() prepares a node map and an edge list for Graph()
Build ==
    /\ pc = "start"
    /\ nodes' \in NodeLists
    /\ edges' \in AnyEdgeLists(nodes')
    /\ input' = [nodes |-> nodes', edges |-> edges']
    /\ pc' = "main"
    /\ UNCHANGED <<forward_edges, reverse_edges, removed_any, todo, err, calls,
                   passes, removed, entry, pass_nodes>>
    /\ UNCHANGED beside

\* a caller removes a node of its choice the way lines 108-109 do:
\* self._remove_node_edges(node), then del self.nodes[node.id]
RemoveNode ==
    /\ pc = "built"
    /\ \E node \in Range(input.nodes) \cup {Stranger(input.nodes)} :
       \E g \in {remove_node_edges([edges |-> edges, fwd |-> forward_edges,
                                   rev |-> reverse_edges, err |-> "none"], node)} :
       LET found == \E i \in 1..Len(nodes) : nodes[i].id = node.id
       IN  /\ target' = node
           /\ entry' = [nodes |-> nodes, edges |-> edges,
                        fwd |-> forward_edges, rev |-> reverse_edges]
           /\ edges' = g.edges
           /\ forward_edges' = g.fwd
           /\ reverse_edges' = g.rev
           /\ IF g.err # "none"
              THEN /\ err' = g.err
                   /\ pc' = "raised"
                   /\ UNCHANGED <<nodes, removed>>
              ELSE IF ~found
              THEN /\ err' = "KeyError"
                   /\ pc' = "raised"
                   /\ UNCHANGED <<nodes, removed>>
              ELSE /\ nodes' = DictDel(nodes, node.id)
                   /\ removed' = removed \cup {node}
                   /\ UNCHANGED <<pc, err>>
    /\ UNCHANGED <<removed_any, todo, calls, passes, input, pass_nodes, name, label>>

ApiNext ==
    \/ LoadUnknownId
    \/ Build
    \/ Construct
    \/ RemoveNode

ApiSpec == Init /\ [][ApiNext]_vars

----------------------------------------------------------------------------
(* generate_graphviz: the name shown in a node's label *)

\* len(name) > 100 and name[:100]
NameCap == 100

\* the longest run of characters put before and after the body of a name,
\* and the number of characters by which a body may exceed NameCap
MaxAffix == 2

Chars == {"a", "@"}

Dots == <<".", ".", ".">>

Fill(k) == [i \in 1..k |-> "a"]

Affixes == UNION {[1..k -> Chars] : k \in 0..MaxAffix}

\* node names: strings as sequences of characters, short ones and ones
\* around NameCap characters long, with '@' at either end, both or neither
NodeNames ==
    {h \o Fill(k) \o t : h \in Affixes, t \in Affixes, k \in 0..(NameCap + MaxAffix)}

\* a mutation of RFind: the position of the first '@' of s[1..i]
FirstAt(s, i) ==
    IF \E j \in 1..i : s[j] = "@"
    THEN CHOOSE j \in 1..i : s[j] = "@" /\ \A k \in 1..(j - 1) : s[k] # "@"
    ELSE 0

\* str.rsplit scans from the right: the position of the last '@' of s[1..i],
\* 0 when there is none
RECURSIVE RFind(_, _)
RFind(s, i) ==
    IF i = 0 THEN 0
    ELSE IF s[i] = "@" THEN i
    ELSE RFind(s, i - 1)

\* s.rsplit("@", 1)[0]
RSplitHead(s) ==
    LET i == RFind(s, Len(s))
    IN  IF i = 0 THEN s ELSE SubSeq(s, 1, i - 1)

\* the graph is loaded; line 52 is reached for a node whose name is `name`
LabelInit ==
    /\ pc = "name"
    /\ name \in NodeNames
    /\ label = <<>>
    /\ target = NoNode
    /\ nodes = <<>>
    /\ edges = <<>>
    /\ forward_edges = EmptyDict
    /\ reverse_edges = EmptyDict
    /\ removed_any = FALSE
    /\ todo = <<>>
    /\ err = "none"
    /\ calls = 0
    /\ passes = 0
    /\ input = [nodes |-> <<>>, edges |-> <<>>]
    /\ removed = {}
    /\ entry = [nodes |-> <<>>, edges |-> <<>>, fwd |-> EmptyDict, rev |-> EmptyDict]
    /\ pass_nodes = 0

\* line 53: name = node.name.rsplit("@", 1)[0]
SplitName ==
    /\ pc = "name"
    /\ label' = RSplitHead(name)
    /\ pc' = "split"
    /\ UNCHANGED <<nodes, edges, forward_edges, reverse_edges, removed_any, todo,
                   err, calls, passes, input, removed, entry, pass_nodes, target, name>>

\* lines 54-55: if len(name) > 100: name = name[:100] + "..."
CapName ==
    /\ pc = "split"
    /\ label' = IF Len(label) > NameCap
                THEN SubSeq(label, 1, NameCap) \o Dots
                ELSE label
    /\ pc' = "labelled"
    /\ UNCHANGED <<nodes, edges, forward_edges, reverse_edges, removed_any, todo,
                   err, calls, passes, input, removed, entry, pass_nodes, target, name>>

LabelNext ==
    \/ SplitName
    \/ CapName

LabelSpec == LabelInit /\ [][LabelNext]_vars

\* the interpreter always takes the next step of a running program
FairSpec == Spec /\ WF_vars(Next)

----------------------------------------------------------------------------
(* Sanity *)

TypeOK ==
    /\ pc \in {"start", "main", "built", "while", "for", "done", "raised",
              "name", "split", "labelled"}
    /\ err \in {"none", "KeyError", "ValueError", "AssertionError"}
    /\ removed_any \in BOOLEAN
    /\ calls \in 0..2
    /\ Range(nodes) \subseteq Range(input.nodes)

----------------------------------------------------------------------------
(* Vocabulary of the properties *)

Present == Range(nodes)

InputNodes == Range(input.nodes)

InputEdges == Range(input.edges)

Constructed == pc \notin {"start", "main"}

Touches(e, n) == e.src = n \/ e.dst = n

\* a leaf by the definition of the pruning pass, in a set E of edges
RemovableLeaf(E, n) == n.fixed /\ \A e \in E : e.src = n => e.name = "env"

\* destinations of the edges of E that leave n and are not named "env"
NonEnvSucc(E, n) == {e.dst : e \in {x \in E : x.src = n /\ x.name # "env"}}

RECURSIVE ReachFrom(_, _)
ReachFrom(E, S) ==
    LET T == S \cup UNION {NonEnvSucc(E, m) : m \in S}
    IN  IF T = S THEN S ELSE ReachFrom(E, T)

\* the nodes reached from n by one or more edges not named "env"
Reach(E, n) == ReachFrom(E, NonEnvSucc(E, n))

OnNonEnvCycle(E, n) == n \in Reach(E, n)

\* following non-"env" edges from n arrives at a non-fixed node or at a cycle
KeptAlive(E, n) == \E m \in Reach(E, n) : ~m.fixed \/ OnNonEnvCycle(E, m)

\* the nodes reached from the set S by zero or more edges of E, whatever their name
RECURSIVE ReachAnyFrom(_, _)
ReachAnyFrom(E, S) ==
    LET T == S \cup {e.dst : e \in {x \in E : x.src \in S}}
    IN  IF T = S THEN S ELSE ReachAnyFrom(E, T)

ReachAny(E, n) == ReachAnyFrom(E, {n})

----------------------------------------------------------------------------
(* C1 *)

\* C1: index consistency (I1).  Once the graph is constructed, and after every
\* node removal, each edge of `edges` is in the forward bucket of its src and
\* of no other node, in the reverse bucket of its dst and of no other node,
\* and every edge held by a bucket is in `edges`.
C1_IndexConsistency ==
    Constructed =>
        /\ \A e \in Range(edges) :
              /\ \A k \in DOMAIN forward_edges \cup {e.src} :
                    (e \in Get(forward_edges, k)) <=> (k = e.src)
              /\ \A k \in DOMAIN reverse_edges \cup {e.dst} :
                    (e \in Get(reverse_edges, k)) <=> (k = e.dst)
        /\ \A k \in DOMAIN forward_edges : forward_edges[k] \subseteq Range(edges)
        /\ \A k \in DOMAIN reverse_edges : reverse_edges[k] \subseteq Range(edges)

----------------------------------------------------------------------------
(* C2 *)

\* C2: no dangling references (I2/I3).  A removed node is not in `nodes`, is
\* the src or dst of no edge in `edges` and of no edge in a bucket of either
\* index, and its own buckets are empty; every edge in `edges` has both
\* endpoints in `nodes`.
C2_NoDanglingReferences ==
    Constructed =>
        /\ \A r \in removed :
              /\ r \notin Present
              /\ \A e \in Range(edges) : ~Touches(e, r)
              /\ \A k \in DOMAIN forward_edges :
                    \A e \in forward_edges[k] : ~Touches(e, r)
              /\ \A k \in DOMAIN reverse_edges :
                    \A e \in reverse_edges[k] : ~Touches(e, r)
              /\ Get(forward_edges, r) = {}
              /\ Get(reverse_edges, r) = {}
        /\ \A e \in Range(edges) : e.src \in Present /\ e.dst \in Present

----------------------------------------------------------------------------
(* C3 *)

\* C3: fixed-point guarantee.  When remove_fixed_leaves has returned, every
\* fixed node still in `nodes` has a forward edge, present in `edges`, whose
\* name is not "env": no remaining node is a removable leaf.
C3_FixedPoint ==
    pc = "done" =>
        \A n \in Present :
            n.fixed => \E e \in Get(forward_edges, n) :
                          e.name # "env" /\ e \in Range(edges)

\* a call that removed a node in one pass, needed a further pass to remove
\* another, and left a fixed node behind
C3_Witness ==
    /\ pc = "done"
    /\ passes >= 3
    /\ Cardinality(removed) >= 2
    /\ \E n \in Present : n.fixed

----------------------------------------------------------------------------
(* C4 *)

\* C4: non-fixed preservation.  From the entry of remove_fixed_leaves to its
\* return the non-fixed nodes of `nodes` are those it was entered with.
C4_NonFixedPreserved ==
    calls >= 1 =>
        {n \in Present : ~n.fixed} = {n \in Range(entry.nodes) : ~n.fixed}

\* pruning returned having removed a fixed node that a non-fixed node, which
\* has no outgoing edge left, referred to
C4_Witness ==
    /\ pc = "done"
    /\ \E n \in Present, r \in removed :
          /\ ~n.fixed
          /\ Edge(n, r, "ref") \in InputEdges
          /\ Get(forward_edges, n) = {}

----------------------------------------------------------------------------
(* C5 *)

\* C5: termination.  Every call of remove_fixed_leaves, once entered,
\* eventually returns (reaches "done").
C5_Termination == (pc = "while") ~> (pc = "done")

\* a call that returned after four passes, the last of which removed nothing
C5_Witness ==
    /\ pc = "done"
    /\ passes = 4
    /\ ~removed_any
    /\ Cardinality(removed) = 3

----------------------------------------------------------------------------
(* C6 *)

\* C6: pruning idempotence.  When a call of remove_fixed_leaves that directly
\* follows another one returns, nodes, edges and both indices are what they
\* were when it was entered, i.e. what the preceding call left.
C6_Idempotence ==
    (pc = "done" /\ calls >= 2) =>
        /\ nodes = entry.nodes
        /\ edges = entry.edges
        /\ forward_edges = entry.fwd
        /\ reverse_edges = entry.rev

\* the second call has returned, the first one had removed nodes over several
\* passes and had kept others
C6_Witness ==
    /\ pc = "done"
    /\ calls = 2
    /\ Cardinality(removed) >= 2
    /\ \E n \in Present : n.fixed

----------------------------------------------------------------------------
(* C7 *)

\* C7: removable leaves are removed.  When pruning has returned, a fixed node
\* of the input that had no outgoing edge, or only outgoing edges named "env",
\* is not in `nodes`, no edge of `edges` has it as src or dst, and the
\* non-fixed nodes at the other end of its input edges are in `nodes`.
C7_LeavesRemoved ==
    pc = "done" =>
        \A n \in InputNodes :
            RemovableLeaf(InputEdges, n) =>
                /\ n \notin Present
                /\ \A e \in Range(edges) : ~Touches(e, n)
                /\ \A e \in InputEdges :
                      /\ (e.src = n /\ ~e.dst.fixed) => e.dst \in Present
                      /\ (e.dst = n /\ ~e.src.fixed) => e.src \in Present

----------------------------------------------------------------------------
(* C8 *)

\* C8 as claimed: when pruning has returned, every fixed node of the input
\* that had an outgoing edge not named "env" is in `nodes`.
C8_RetainedAsClaimed ==
    pc = "done" =>
        \A n \in InputNodes :
            (n.fixed /\ \E e \in InputEdges : e.src = n /\ e.name # "env")
                => n \in Present

\* C8 amended: when pruning has returned, every fixed node of the input that
\* had an outgoing edge not named "env" to a node that is still in `nodes`
\* (any non-fixed node is one) is itself in `nodes`.
C8_Retained ==
    pc = "done" =>
        \A n \in InputNodes :
            (n.fixed /\ \E e \in InputEdges :
                            e.src = n /\ e.name # "env" /\ e.dst \in Present)
                => n \in Present

\* pruning returned; a fixed node with a non-"env" edge to a kept node and an
\* "env" edge is kept, while another node was removed
C8_Witness ==
    /\ pc = "done"
    /\ removed # {}
    /\ \E n \in Present, m \in Present :
          /\ n.fixed
          /\ n # m
          /\ Edge(n, m, "ref") \in InputEdges
          /\ \E e \in InputEdges : e.src = n /\ e.name = "env"

----------------------------------------------------------------------------
(* C9 *)

----------------------------------------------------------------------------
(* C10 *)

----------------------------------------------------------------------------
(* C11 *)

\* C11: a graph whose list of edges names, as src or dst, a node that is not
\* in its node map is never constructed: whenever the caller's edges do so,
\* no Graph() call has returned, and if the attempt has ended it has ended
\* with MalformedGraphError, leaving no index behind.
C11_MalformedRejected ==
    Malformed(input.nodes, input.edges) =>
        /\ pc \in {"start", "main", "raised"}
        /\ pc = "raised" =>
              /\ err = "MalformedGraphError"
              /\ forward_edges = EmptyDict
              /\ reverse_edges = EmptyDict

----------------------------------------------------------------------------
(* C12 *)

\* C12: removing a node that is not in `nodes` when the removal is asked for
\* signals NotFoundError and leaves `nodes`, `edges` and both indices as they
\* were before the request.
C12_AbsentNodeSignalled ==
    (target # NoNode /\ target \notin Range(entry.nodes)) =>
        /\ pc = "raised"
        /\ err = "NotFoundError"
        /\ nodes = entry.nodes
        /\ edges = entry.edges
        /\ forward_edges = entry.fwd
        /\ reverse_edges = entry.rev

----------------------------------------------------------------------------
(* C13 *)

\* the number of positions of the list es that hold the edge e
Occurrences(es, e) == Cardinality({i \in 1..Len(es) : es[i] = e})

\* C13: edges form a set.  Once the graph is constructed, an edge of the
\* input, however often the input repeats it, occurs exactly once in `edges`
\* and is in the forward bucket of its src and the reverse bucket of its dst
\* while both its endpoints are in the graph, and occurs nowhere in `edges`
\* or in a bucket once one of its endpoints has been removed.
C13_EdgesFormASet ==
    Constructed =>
        \A e \in InputEdges :
            IF e.src \in removed \/ e.dst \in removed
            THEN /\ Occurrences(edges, e) = 0
                 /\ \A k \in DOMAIN forward_edges : e \notin forward_edges[k]
                 /\ \A k \in DOMAIN reverse_edges : e \notin reverse_edges[k]
            ELSE /\ Occurrences(edges, e) = 1
                 /\ e \in Get(forward_edges, e.src)
                 /\ e \in Get(reverse_edges, e.dst)

----------------------------------------------------------------------------
(* C14 *)

HasAt(s) == \E i \in 1..Len(s) : s[i] = "@"

\* the part of s before its first '@', s itself when it has none
BeforeFirstAt(s) ==
    IF HasAt(s)
    THEN SubSeq(s, 1, (CHOOSE i \in 1..Len(s) :
                          s[i] = "@" /\ \A j \in 1..(i - 1) : s[j] # "@") - 1)
    ELSE s

\* the part of s before its last '@', s itself when it has none
BeforeLastAt(s) ==
    IF HasAt(s)
    THEN SubSeq(s, 1, (CHOOSE i \in 1..Len(s) :
                          s[i] = "@" /\ \A j \in (i + 1)..Len(s) : s[j] # "@") - 1)
    ELSE s

\* shown is t when t has at most NameCap characters, and otherwise the first
\* NameCap characters of t followed by three dots
ShownAs(shown, t) ==
    IF Len(t) <= NameCap
    THEN shown = t
    ELSE /\ Len(shown) = NameCap + 3
         /\ \A i \in 1..NameCap : shown[i] = t[i]
         /\ \A i \in (NameCap + 1)..(NameCap + 3) : shown[i] = "."

\* C14 as claimed: the name shown in a label is the node's name truncated at
\* its first '@'; if that is longer than 100 characters its first 100
\* characters followed by "...", and otherwise it carries no marker.
C14_LabelAsClaimed ==
    pc = "labelled" => ShownAs(label, BeforeFirstAt(name))

\* C14 amended: the name shown in a label is the node's name truncated at its
\* last '@' (the whole name when it has none); if that is longer than 100
\* characters its first 100 characters followed by "...", and otherwise it
\* carries no marker.
C14_Label ==
    pc = "labelled" => ShownAs(label, BeforeLastAt(name))

\* a labelled name with two '@' whose part before the last '@' is longer
\* than 100 characters: it is cut to 103 characters and keeps its first '@'
C14_Witness ==
    /\ pc = "labelled"
    /\ Cardinality({i \in 1..Len(name) : name[i] = "@"}) = 2
    /\ Len(BeforeLastAt(name)) > NameCap
    /\ Len(label) = NameCap + 3
    /\ HasAt(label)

----------------------------------------------------------------------------
(* C15 *)

\* the nodes the current call of remove_fixed_leaves has removed so far
RemovedInRun == Len(entry.nodes) - Len(nodes)

\* C15: pass bound.  At every moment of a call of remove_fixed_leaves the
\* number of passes it has begun is at most the number of nodes it has
\* removed plus one, and whenever a further pass begins the pass before it
\* has removed at least one node: only the last pass removes nothing.
C15_PassBound ==
    /\ [](calls >= 1 => passes <= RemovedInRun + 1)
    /\ [][(passes >= 1 /\ passes' = passes + 1) => Len(nodes) < pass_nodes]_vars

\* a first call that returned after three or more passes, one node removed in
\* each pass but the last, and that kept a node
C15_Witness ==
    /\ pc = "done"
    /\ calls = 1
    /\ passes >= 3
    /\ passes = RemovedInRun + 1
    /\ Present # {}

----------------------------------------------------------------------------
(* C16 *)

\* C16: removal never faults.  For every graph main() constructs, with
\* self-loops, parallel edges of different names and repeated edges, no step
\* of construction or pruning raises: neither assert fails, every remove
\* finds its edge, every del finds its key; and each step that takes a node
\* out of `nodes` takes out one node that was present and had not been
\* removed before.
C16_RemovalNeverFaults ==
    /\ [](pc # "raised" /\ err = "none")
    /\ [][(Constructed /\ nodes' # nodes) =>
             \E n \in Present \ removed :
                /\ Range(nodes') = Present \ {n}
                /\ Len(nodes') = Len(nodes) - 1
                /\ removed' = removed \cup {n}]_vars

\* pruning returned having removed a node whose only edge, a self-loop named
\* "env", the input holds twice, and having kept another node
C16_Witness ==
    /\ pc = "done"
    /\ Present # {}
    /\ \E r \in removed :
          /\ Occurrences(input.edges, Edge(r, r, "env")) = 2
          /\ \A e \in InputEdges : e = Edge(r, r, "env")

----------------------------------------------------------------------------
(* C17 *)

NoRepeatedEdge(es) == \A i, j \in 1..Len(es) : es[i] = es[j] => i = j

BothEndsPresent(e) == e.src \in Present /\ e.dst \in Present

----------------------------------------------------------------------------
(* C18 *)

FixedInput == {n \in InputNodes : n.fixed}

\* n has an input edge not named "env" to a non-fixed node or to a member of S
Supported(S, n) ==
    \E e \in InputEdges :
        e.src = n /\ e.name # "env" /\ (~e.dst.fixed \/ e.dst \in S)

\* the largest set of fixed nodes each of whose members is supported by it:
\* the union of all such sets, which is one of them
LargestSupported ==
    UNION {S \in SUBSET FixedInput : \A n \in S : Supported(S, n)}

============================================================================
